---- MODULE Spec2Model ----
(***************************************************************************)
(* Duplicate-file detection and removal of morchaos                       *)
(* (morchaos/filemanager/duplicate.py, morchaos/core/utils.py).            *)
(*                                                                         *)
(* The filesystem is one directory holding NumFiles regular files.  A file *)
(* can be named by two spellings of its path ("rel": relative, "abs":      *)
(* absolute); pathlib compares paths by spelling, the operating system     *)
(* resolves both spellings to the same file.                               *)
(*                                                                         *)
(* Further parts: move_files_by_age of morchaos/filemanager/move.py, and   *)
(* the scanner with a scope, the resolver with an action and the           *)
(* normalized-source hasher of morchaos.core.duplicate and                 *)
(* morchaos.core.source, which are modelled from the specification.        *)
(***************************************************************************)
EXTENDS Integers, Sequences, FiniteSets, TLC

\* ---------------------------------------------------------------- bounds
NumFiles == 3
MaxPaths == 2
MaxNameLen == 2
MaxUnreadable == 1
MaxDenied == 1
MaxVanished == 1
MaxCounter == 2
MaxCreated == 2
MaxSource == 2
MaxMoveFailures == 1
MaxTextLen == 2
MaxPromptLen == 2
MaxRetries == 4
MaxDepth == 2
MaxPages == 4
NumMsgs == 1
MaxPolls == 2
MaxDirDepth == 2
MaxTreeFiles == 1

Files == 1..NumFiles
Contents == {"X", "Y", "Z"}
Spellings == {"rel", "abs"}
Strategies == {"longer", "shorter", "first"}

\* ----------------------------------------------------------------- state
VARIABLES
    content,        \* content[f]: the bytes of file f
    nameLen,        \* nameLen[f]: len(path.name) of file f
    unreadable,     \* files that open() refuses
    exists,         \* files currently on disk
    pc,             \* "start", "scanned", "resolved"
    paths,          \* argument of find_duplicates
    duplicates,     \* result of find_duplicates: the dict, in insertion order
    strategy,       \* argument of remove_duplicates
    dry_run,        \* argument of remove_duplicates
    keep_files,     \* keep_file chosen for each processed group, in order
    removed_files,  \* result of remove_duplicates
    log,            \* records written to the module logger
    raised          \* exception that left the last call, "none" if it returned

\* State of a second scan and of the other processes that use the tree.
VARIABLES
    previous,       \* result of the scan before the last one
    vanished        \* files another process deleted after the scan

rescanVars == <<previous, vanished>>

dupVars == <<content, nameLen, unreadable, exists, pc, paths, duplicates,
             strategy, dry_run, keep_files, removed_files, log, raised>>

\* State of morchaos/filemanager/move.py.
VARIABLES
    source_dir,     \* name -> file in the source directory (0: no such name)
    dest_dir,       \* name -> file in the target directory (0: no such name)
    dest_made,      \* the target directory exists
    created,        \* files created in the source directory so far
    moved_files,    \* return value of the last move_files_by_age
    move_log,       \* records logged by the last move_files_by_age
    last            \* "move" right after a call of move_files_by_age

moveVars == <<source_dir, dest_dir, dest_made, created, moved_files, move_log, last>>

\* State of the scanner with a scope (morchaos.core.duplicate).
VARIABLES
    parents,        \* parents[f]: directory names between the root and file f
    suffix,         \* suffix[f]: extension of file f
    scope,          \* argument of the scan: root, extensions, ignore_dirs
    scoped,         \* result of the scan
    scope_raised,   \* exception that left the scan, "none" if it returned
    scope_pc        \* "start", "done"

scopeVars == <<parents, suffix, scope, scoped, scope_raised, scope_pc>>

\* State of the resolver with an action (morchaos.core.duplicate).
VARIABLES
    act_groups,     \* argument: the groups, each a sequence of files
    act_request,    \* arguments: the action and the target directory
    processed,      \* result: the number of files acted upon
    act_raised,     \* exception that left the call, "none" if it returned
    act_pc,         \* "start", "done"
    target_made,    \* the target directory exists
    target_files    \* files moved into the target directory

actVars == <<act_groups, act_request, processed, act_raised, act_pc,
             target_made, target_files>>

\* State of the normalized-source hasher (morchaos.core.source).
VARIABLES
    source_text,    \* source_text[f]: the tokens of source file f
    source_exists,  \* the source files on disk
    fingerprints    \* fingerprints[f]: outcome of normalize_hash(f)

normVars == <<source_text, source_exists, fingerprints>>

\* State of read_prompt (morchaos/core/prompt_manager.py).
VARIABLES
    prompt_args,    \* arguments: source, file_path, prompt_name, default
    prompt_file,    \* what the file system holds at file_path
    prompt_out      \* outcome of the call: exception raised and value returned

promptVars == <<prompt_args, prompt_file, prompt_out>>

\* State of get_page (morchaos/downloader/web.py).
VARIABLES
    page_retries,   \* argument `retries`
    page_attempt,   \* loop variable `attempt`: iterations finished so far
    page_requests,  \* outcome of every requests.get issued, in order
    page_sleeps,    \* argument of every time.sleep, in order
    page_log,       \* records logged by the call
    page_result     \* "running", or what the call returned

pageVars == <<page_retries, page_attempt, page_requests, page_sleeps, page_log,
              page_result>>

\* State of crawl_website (morchaos/downloader/website.py).
VARIABLES
    crawl_links,    \* the site: crawl_links[u] are the same-domain links of page u
    crawl_args,     \* arguments max_depth and max_pages (start_url is "/")
    visited,        \* local `visited`
    to_visit,       \* local `to_visit`: queue of <<url, depth>>
    all_urls,       \* local `all_urls`, returned at the end
    fetched,        \* every url passed to get_page, in order
    crawl_failed,   \* urls for which get_page returned None
    crawl_pc        \* "loop", "done"

crawlVars == <<crawl_links, crawl_args, visited, to_visit, all_urls, fetched,
               crawl_failed, crawl_pc>>

\* State of EmailBot (morchaos/email/bot.py, imap.py, smtp.py).
VARIABLES
    mail,               \* mail[m]: the From and Subject headers of message m
    seen,               \* messages with the \\Seen flag on the server
    authorized_senders, \* EmailBot.authorized_senders
    connection,         \* imap_client.connection: "None" or the state of the session
    handled,            \* messages for which a command handler ran, in order
    responses,          \* emails handed to smtp_client.send_email, in order
    bot_log,            \* records logged by the bot
    bot_raised,         \* exception that left the last run_once, "none" if it returned
    polls               \* calls of run_once so far

botVars == <<mail, seen, authorized_senders, connection, handled, responses,
             bot_log, bot_raised, polls>>

\* State of remove_empty_directories (morchaos/filemanager/create.py).
VARIABLES
    tree_dirs,     \* directories beneath root, each the sequence of its parts
    tree_files,    \* regular files beneath root, each [dir, name]
    tree_given,    \* the tree when remove_empty_directories was called
    tree_removed,  \* the list returned by remove_empty_directories
    tree_log,      \* records logged by remove_empty_directories
    tree_pc        \* "start" before the call, "done" after it

treeVars == <<tree_dirs, tree_files, tree_given, tree_removed, tree_log, tree_pc>>

\* Groups of the variables of the tools.
toolVars == <<promptVars, pageVars, crawlVars, botVars, treeVars>>

\* Everything but the state of this part.
allBut_prompt == <<dupVars, rescanVars, moveVars, scopeVars, actVars, normVars, pageVars, crawlVars, botVars, treeVars>>

\* Everything but the state of this part.
allBut_page == <<dupVars, rescanVars, moveVars, scopeVars, actVars, normVars, promptVars, crawlVars, botVars, treeVars>>

\* Everything but the state of this part.
allBut_crawl == <<dupVars, rescanVars, moveVars, scopeVars, actVars, normVars, promptVars, pageVars, botVars, treeVars>>

\* Everything but the state of this part.
allBut_bot == <<dupVars, rescanVars, moveVars, scopeVars, actVars, normVars, promptVars, pageVars, crawlVars, treeVars>>

\* Everything but the state of this part.
allBut_tree == <<dupVars, rescanVars, moveVars, scopeVars, actVars, normVars, promptVars, pageVars, crawlVars, botVars>>


\* The state the duplicate finder of morchaos/filemanager never touches.
extVars == <<rescanVars, moveVars, scopeVars, actVars, normVars, toolVars>>

vars == <<content, nameLen, unreadable, exists, pc, paths, duplicates,
          strategy, dry_run, keep_files, removed_files, log, raised, extVars>>

\* ----------------------------------------------------------------- paths
\* A pathlib.Path of a regular file: the file it resolves to and its spelling.
FilePath(f, s) == [file |-> f, via |-> s]

\* The values a caller can put in the list `paths`.
FileArg(f, s) == [kind |-> "file", file |-> f, via |-> s]
DirArg(s) == [kind |-> "dir", file |-> 0, via |-> s]
MissingArg == [kind |-> "missing", file |-> 0, via |-> "rel"]

\* A file named directly is spelled relative; the directory is named by
\* either spelling.
PathArgs == {FileArg(f, "rel") : f \in Files}
            \cup {DirArg(s) : s \in Spellings}
            \cup {MissingArg}

\* All lists of at most n arguments.
RECURSIVE SeqsUpTo(_, _)
SeqsUpTo(S, n) ==
    IF n = 0 THEN {<<>>}
    ELSE LET shorter == SeqsUpTo(S, n - 1)
         IN shorter \cup {Append(q, x) : q \in {r \in shorter : Len(r) = n - 1}, x \in S}

PathLists == SeqsUpTo(PathArgs, MaxPaths)

\* The lists a caller of find_and_remove_duplicates passes: the directory
\* under either spelling, and its first file.
TreeArgs == {FileArg(1, "rel")} \cup {DirArg(s) : s \in Spellings}

TreeLists == SeqsUpTo(TreeArgs, MaxPaths)

is_file(arg) == arg.kind = "file" /\ arg.file \in exists
is_dir(arg) == arg.kind = "dir"

\* path.rglob("*") restricted to regular files: every file on disk, spelled
\* the way the directory was spelled, in the directory's listing order.
RECURSIVE rglobFrom(_, _)
rglobFrom(s, f) ==
    IF f > NumFiles THEN <<>>
    ELSE IF f \in exists THEN <<FilePath(f, s)>> \o rglobFrom(s, f + 1)
    ELSE rglobFrom(s, f + 1)

rglob(arg) == rglobFrom(arg.via, 1)

\* ------------------------------------------------------------------ hash
\* hashlib digest of a byte string: a function of the content alone, with a
\* finite range; "Y" and "Z" stand for two byte strings with equal digests.
md5(c) == IF c = "Z" THEN "h_Y" ELSE "h_" \o c

\* calculate_file_hash: "error" stands for the exception open() raises.
calculate_file_hash(p) ==
    IF p.file \in unreadable THEN "error" ELSE md5(content[p.file])

\* ------------------------------------------------------- find_duplicates
\* Variant of DictAppend that never finds the key: every file starts a group.
DictAppendNew(d, h, p) == Append(d, [h |-> h, files |-> <<p>>])

\* Variant of DictAppend that puts the path at the front of its list.
RECURSIVE DictAppendFront(_, _, _)
DictAppendFront(d, h, p) ==
    IF d = <<>> THEN <<[h |-> h, files |-> <<p>>]>>
    ELSE IF Head(d).h = h
         THEN <<[h |-> h, files |-> <<p>> \o Head(d).files]>> \o Tail(d)
         ELSE <<Head(d)>> \o DictAppendFront(Tail(d), h, p)

\* hash_to_files[file_hash].append(path) on an insertion-ordered dict, kept
\* as a sequence of [h, files] entries.
RECURSIVE DictAppend(_, _, _)
DictAppend(d, h, p) ==
    IF d = <<>> THEN <<[h |-> h, files |-> <<p>>]>>
    ELSE IF Head(d).h = h
         THEN <<[h |-> h, files |-> Append(Head(d).files, p)]>> \o Tail(d)
         ELSE <<Head(d)>> \o DictAppend(Tail(d), h, p)

\* Variant of HashInto without the try/except: the failed hash is stored as
\* a key like any other and nothing is logged.
HashIntoKeepingFailed(st, p) ==
    [st EXCEPT !.map = DictAppend(@, calculate_file_hash(p), p)]

\* The try/except around one file: st = [map, log].
HashInto(st, p) ==
    LET file_hash == calculate_file_hash(p)
    IN IF file_hash = "error"
       THEN [st EXCEPT !.log = Append(@, [level |-> "WARNING", msg |-> "Could not hash", path |-> p])]
       ELSE [st EXCEPT !.map = DictAppend(@, file_hash, p)]

RECURSIVE HashAll(_, _)
HashAll(st, fps) ==
    IF fps = <<>> THEN st ELSE HashAll(HashInto(st, Head(fps)), Tail(fps))

\* The loop `for path in paths`.
RECURSIVE ScanPaths(_, _)
ScanPaths(st, ps) ==
    IF ps = <<>> THEN st
    ELSE LET arg == Head(ps)
             st1 == IF is_file(arg) THEN HashInto(st, FilePath(arg.file, arg.via))
                    ELSE IF is_dir(arg) THEN HashAll(st, rglob(arg))
                    ELSE st
         IN ScanPaths(st1, Tail(ps))

\* Variant of NewDict for a dict that outlives the call (a module-level
\* dict, a mutable default argument): it still holds the entries of the
\* previous scan.
LeakedDict == duplicates

\* hash_to_files = defaultdict(list)
NewDict == <<>>

\* Variant of HasDuplicates with the comparison `len(files) > 0`.
HasAnyFile(entry) == Len(entry.files) > 0

\* The final dict comprehension.
HasDuplicates(entry) == Len(entry.files) > 1

OnlyDuplicates(d) == SelectSeq(d, HasDuplicates)

\* Variant of find_duplicates that deletes the files it could not hash.
find_duplicates_purging(ps) ==
    /\ pc = "start"
    /\ LET st == ScanPaths([map |-> <<>>, log |-> log], ps)
       IN /\ duplicates' = OnlyDuplicates(st.map)
          /\ log' = st.log
          /\ exists' = exists \ {st.log[i].path.file : i \in DOMAIN st.log}
    /\ paths' = ps
    /\ raised' = "none"
    /\ pc' = "scanned"
    /\ UNCHANGED <<content, nameLen, unreadable, strategy, dry_run,
                   keep_files, removed_files, extVars>>

find_duplicates(ps) ==
    /\ pc = "start"
    /\ LET st == ScanPaths([map |-> NewDict, log |-> log], ps)
       IN /\ duplicates' = OnlyDuplicates(st.map)
          /\ log' = st.log
    /\ paths' = ps
    /\ raised' = "none"
    /\ pc' = "scanned"
    /\ UNCHANGED <<content, nameLen, unreadable, exists, strategy, dry_run,
                   keep_files, removed_files, extVars>>

\* A second call with the same list on the tree as it is now; the result of
\* the call before is kept for comparison.
find_duplicates_again ==
    /\ pc = "scanned"
    /\ LET st == ScanPaths([map |-> NewDict, log |-> log], paths)
       IN /\ duplicates' = OnlyDuplicates(st.map)
          /\ log' = st.log
    /\ previous' = duplicates
    /\ raised' = "none"
    /\ pc' = "rescanned"
    /\ UNCHANGED <<content, nameLen, unreadable, exists, paths, strategy, dry_run,
                   keep_files, removed_files, vanished,
                   moveVars, scopeVars, actVars, normVars, toolVars>>

\* ----------------------------------------------------- remove_duplicates
\* Variant of MaxByName that replaces the best on ties: the last element of
\* maximal key.
RECURSIVE MaxByNameLast(_, _)
MaxByNameLast(best, rest) ==
    IF rest = <<>> THEN best
    ELSE IF nameLen[Head(rest).file] >= nameLen[best.file]
         THEN MaxByNameLast(Head(rest), Tail(rest))
         ELSE MaxByNameLast(best, Tail(rest))

\* max(files, key=lambda f: len(f.name)): the first element of maximal key.
RECURSIVE MaxByName(_, _)
MaxByName(best, rest) ==
    IF rest = <<>> THEN best
    ELSE IF nameLen[Head(rest).file] > nameLen[best.file]
         THEN MaxByName(Head(rest), Tail(rest))
         ELSE MaxByName(best, Tail(rest))

\* min(files, key=lambda f: len(f.name)): the first element of minimal key.
RECURSIVE MinByName(_, _)
MinByName(best, rest) ==
    IF rest = <<>> THEN best
    ELSE IF nameLen[Head(rest).file] < nameLen[best.file]
         THEN MinByName(Head(rest), Tail(rest))
         ELSE MinByName(best, Tail(rest))

KeepFile(files, strat) ==
    IF strat = "longer" THEN MaxByName(Head(files), Tail(files))
    ELSE IF strat = "shorter" THEN MinByName(Head(files), Tail(files))
    ELSE files[1]

\* Variant of RemoveOne that unlinks without testing dry_run.
RemoveOneIgnoringDryRun(st, file_path, keep_file, dry, denied) ==
    IF file_path = keep_file THEN st
    ELSE LET st1 == [st EXCEPT !.log = Append(@,
                        [level |-> "INFO",
                         msg |-> IF dry THEN "Would remove" ELSE "Removing",
                         path |-> file_path])]
         IN IF file_path.file \in st1.exists /\ file_path.file \notin denied
            THEN [st1 EXCEPT !.exists = @ \ {file_path.file},
                             !.removed = Append(@, file_path)]
            ELSE [st1 EXCEPT !.log = Append(@,
                     [level |-> "ERROR", msg |-> "Failed to remove", path |-> file_path])]

\* Variant of RemoveOne with the append after the try block: a file whose
\* unlink failed is reported too.
RemoveOneCountingFailure(st, file_path, keep_file, dry, denied) ==
    IF file_path = keep_file THEN st
    ELSE LET st1 == [st EXCEPT !.log = Append(@,
                        [level |-> "INFO",
                         msg |-> IF dry THEN "Would remove" ELSE "Removing",
                         path |-> file_path])]
         IN IF ~dry
            THEN IF file_path.file \in st1.exists /\ file_path.file \notin denied
                 THEN [st1 EXCEPT !.exists = @ \ {file_path.file},
                                  !.removed = Append(@, file_path)]
                 ELSE [st1 EXCEPT !.log = Append(@,
                          [level |-> "ERROR", msg |-> "Failed to remove", path |-> file_path]),
                                  !.removed = Append(@, file_path)]
            ELSE [st1 EXCEPT !.removed = Append(@, file_path)]

\* One iteration of `for file_path in files`: st = [exists, removed, log];
\* denied are the files whose unlink() the operating system refuses.
RemoveOne(st, file_path, keep_file, dry, denied) ==
    IF file_path = keep_file THEN st
    ELSE LET st1 == [st EXCEPT !.log = Append(@,
                        [level |-> "INFO",
                         msg |-> IF dry THEN "Would remove" ELSE "Removing",
                         path |-> file_path])]
         IN IF ~dry
            THEN IF file_path.file \in st1.exists /\ file_path.file \notin denied
                 THEN [st1 EXCEPT !.exists = @ \ {file_path.file},
                                  !.removed = Append(@, file_path)]
                 ELSE [st1 EXCEPT !.log = Append(@,
                          [level |-> "ERROR", msg |-> "Failed to remove", path |-> file_path])]
            ELSE [st1 EXCEPT !.removed = Append(@, file_path)]

\* Variant of RemoveOthers without the try/except: the first failed unlink
\* ends the loop over the group.
RECURSIVE RemoveOthersStopping(_, _, _, _, _)
RemoveOthersStopping(st, files, keep_file, dry, denied) ==
    IF files = <<>> THEN st
    ELSE LET st1 == RemoveOne(st, Head(files), keep_file, dry, denied)
         IN IF Len(st1.log) = Len(st.log) + 2 THEN st1
            ELSE RemoveOthersStopping(st1, Tail(files), keep_file, dry, denied)

RECURSIVE RemoveOthers(_, _, _, _, _)
RemoveOthers(st, files, keep_file, dry, denied) ==
    IF files = <<>> THEN st
    ELSE RemoveOthers(RemoveOne(st, Head(files), keep_file, dry, denied),
                      Tail(files), keep_file, dry, denied)

\* The loop `for file_hash, files in duplicate_groups.items()`.
RECURSIVE RemoveGroups(_, _, _, _, _)
RemoveGroups(st, groups, strat, dry, denied) ==
    IF groups = <<>> THEN st
    ELSE LET files == Head(groups).files
         IN IF Len(files) <= 1
            THEN RemoveGroups(st, Tail(groups), strat, dry, denied)
            ELSE LET keep_file == KeepFile(files, strat)
                     st1 == RemoveOthers([st EXCEPT !.keeps = Append(@, keep_file)],
                                         files, keep_file, dry, denied)
                 IN RemoveGroups(st1, Tail(groups), strat, dry, denied)

remove_duplicates(strat, dry, denied) ==
    /\ pc = "scanned"
    /\ LET st == RemoveGroups([exists |-> exists, removed |-> <<>>, log |-> log,
                               keeps |-> <<>>],
                              duplicates, strat, dry, denied)
       IN /\ exists' = st.exists
          /\ removed_files' = st.removed
          /\ keep_files' = st.keeps
          /\ log' = st.log
    /\ strategy' = strat
    /\ dry_run' = dry
    /\ raised' = "none"
    /\ pc' = "resolved"
    /\ UNCHANGED <<content, nameLen, unreadable, paths, duplicates, extVars>>

\* Another process deletes a file between the scan and the resolution.
ExternalDelete ==
    /\ pc = "scanned"
    /\ Cardinality(vanished) < MaxVanished
    /\ \E f \in exists :
           /\ exists' = exists \ {f}
           /\ vanished' = vanished \cup {f}
    /\ UNCHANGED <<content, nameLen, unreadable, pc, paths, duplicates, strategy,
                   dry_run, keep_files, removed_files, log, raised, previous,
                   moveVars, scopeVars, actVars, normVars, toolVars>>

\* -------------------------------------------------------- specifications
DeniedSets == {D \in SUBSET Files : Cardinality(D) <= MaxDenied}

NoRescan ==
    /\ previous = <<>>
    /\ vanished = {}

\* A file name is a fixed stem followed by "_<n>" parts and a suffix:
\* <<>> is "a.txt", <<1>> is "a_1.txt", <<1, 2>> is "a_1_2.txt".
Suffix == ".txt"

SourceNames ==
    {[tags |-> <<>>, suffix |-> Suffix]}
        \cup {[tags |-> <<c>>, suffix |-> Suffix] : c \in 1..MaxCounter}

\* dest_dir / f"{stem}_{counter}{suffix}"
Candidate(name, counter) ==
    [tags |-> Append(name.tags, counter), suffix |-> name.suffix]

Names == SourceNames \cup {Candidate(n, c) : n \in SourceNames, c \in 1..MaxCounter}

Absent == 0
Preexisting == MaxCreated + 1

EmptyDir == [n \in Names |-> Absent]

NoMove ==
    /\ source_dir = EmptyDir
    /\ dest_dir = EmptyDir
    /\ dest_made = FALSE
    /\ created = 0
    /\ moved_files = <<>>
    /\ move_log = <<>>
    /\ last = "none"

\* No candidate up to MaxCounter is free.
Overflow == [tags |-> <<>>, suffix |-> "overflow"]

\* Variant of DestPath without the `while dest_path.exists()` loop.
DestPathOverwriting(dir, name, dest_path, counter) == name

\* dest_path = dest_dir / file_path.name, then the next candidate while the
\* path exists.
RECURSIVE DestPath(_, _, _, _)
DestPath(dir, name, dest_path, counter) ==
    IF dir[dest_path] = Absent THEN dest_path
    ELSE IF counter > MaxCounter THEN Overflow
    ELSE DestPath(dir, name, Candidate(name, counter), counter + 1)

\* One iteration of the loop over source_dir.glob(pattern).
MoveOne(st, name, old, failing) ==
    IF name \notin old THEN st
    ELSE LET dest_path == DestPath(st.dst, name, name, 1)
         IN IF dest_path = Overflow THEN [st EXCEPT !.ok = FALSE]
            ELSE IF name \in failing
                 THEN [st EXCEPT !.log = Append(@, [level |-> "ERROR", src |-> name])]
                 ELSE [st EXCEPT !.dst[dest_path] = st.src[name],
                                 !.src[name] = Absent,
                                 !.moved = Append(@, dest_path),
                                 !.log = Append(@, [level |-> "INFO", src |-> name,
                                                    dest |-> dest_path])]

RECURSIVE MoveAll(_, _, _, _)
MoveAll(st, order, old, failing) ==
    IF order = <<>> THEN st
    ELSE MoveAll(MoveOne(st, Head(order), old, failing), Tail(order), old, failing)

Present(dir) == {n \in Names : dir[n] # Absent}

\* The orders in which glob may list the files of a directory.
GlobOrders(dir) ==
    {o \in [1..Cardinality(Present(dir)) -> Present(dir)] :
        \A i, j \in DOMAIN o : i # j => o[i] # o[j]}

\* move_files_by_age(source_dir, dest_dir, days_old): `old` are the files
\* older than the cutoff, `failing` those whose shutil.move raises.
move_files_by_age(order, old, failing) ==
    LET st == MoveAll([src |-> source_dir, dst |-> dest_dir, moved |-> <<>>,
                       log |-> <<>>, ok |-> TRUE], order, old, failing)
    IN /\ st.ok
       /\ source_dir' = st.src
       /\ dest_dir' = st.dst
       /\ dest_made' = TRUE
       /\ moved_files' = st.moved
       /\ move_log' = Append(st.log, [level |-> "INFO", count |-> Len(st.moved)])
       /\ last' = "move"
       /\ UNCHANGED created

\* A new file appears in the source directory.
CreateSource ==
    /\ created < MaxCreated
    /\ Cardinality(Present(source_dir)) < MaxSource
    /\ \E n \in SourceNames :
           /\ source_dir[n] = Absent
           /\ source_dir' = [source_dir EXCEPT ![n] = created + 1]
    /\ created' = created + 1
    /\ last' = "create"
    /\ UNCHANGED <<dest_dir, dest_made, moved_files, move_log>>

\* ------------------------------------------------ scanner with a scope
Exts == {".txt", ".py"}
DirNames == {"subdir1", "subdir2"}

\* Where a file can be: in the root, in subdir1, in subdir2/subdir1.
ParentPaths == {<<>>, <<"subdir1">>, <<"subdir2", "subdir1">>}

\* extensions = {} stands for no allow-list.
NoFilter == [root |-> "dir", extensions |-> {}, ignore_dirs |-> {}]

NoScope ==
    /\ parents = [f \in Files |-> <<>>]
    /\ suffix = [f \in Files |-> ".txt"]
    /\ scope = NoFilter
    /\ scoped = <<>>
    /\ scope_raised = "none"
    /\ scope_pc = "start"

\* Variant of Excluded that looks at the name of the containing directory
\* only.
ExcludedByParent(f, sc) ==
    /\ parents[f] # <<>>
    /\ parents[f][1] \in sc.ignore_dirs

\* An excluded directory name appears among the parent path segments.
Excluded(f, sc) == \E i \in DOMAIN parents[f] : parents[f][i] \in sc.ignore_dirs

\* Variant of Allowed that never consults the allow-list.
AllowedAlways(f, sc) == TRUE

\* No allow-list is configured, or the extension is in it.
Allowed(f, sc) == sc.extensions = {} \/ suffix[f] \in sc.extensions

Considered(sc, p) == ~Excluded(p.file, sc) /\ Allowed(p.file, sc)

\* The regular files of the tree that the scan fingerprints, in traversal
\* order.
Walk(sc) == SelectSeq(rglobFrom("rel", 1), LAMBDA p : Considered(sc, p))

\* find_duplicates(scope): fatal when the root is missing or not a
\* directory, else the groups of two or more considered files.
core_find_duplicates(sc) ==
    /\ scope_pc = "start"
    /\ scope' = sc
    /\ IF sc.root # "dir"
       THEN /\ scope_raised' = "FileNotFoundError"
            /\ UNCHANGED <<scoped, log>>
       ELSE LET st == HashAll([map |-> NewDict, log |-> log], Walk(sc))
            IN /\ scoped' = OnlyDuplicates(st.map)
               /\ log' = st.log
               /\ scope_raised' = "none"
    /\ scope_pc' = "done"
    /\ UNCHANGED <<content, nameLen, unreadable, exists, pc, paths, duplicates,
                   strategy, dry_run, keep_files, removed_files, raised,
                   parents, suffix, rescanVars, moveVars, actVars, normVars,
                   toolVars>>

\* ---------------------------------------------- resolver with an action
Actions == {"delete", "move", "dry-run"}
Targets == {"none", "dir"}

NoAct ==
    /\ act_groups = <<>>
    /\ act_request = [action |-> "delete", target |-> "none"]
    /\ processed = 0
    /\ act_raised = "none"
    /\ act_pc = "start"
    /\ target_made = FALSE
    /\ target_files = {}

\* Variant of InvalidRequest that is evaluated when the first file is about
\* to be moved: with no group there is nothing to reject.
InvalidRequestLazy(groups, action, target) ==
    action = "move" /\ target = "none" /\ groups # <<>>

\* move-to-directory requested without a target directory.
InvalidRequest(groups, action, target) == action = "move" /\ target = "none"

\* The action applied to one non-kept file: st = [exists, target, count, log].
ActOne(st, f, action, denied) ==
    IF action = "dry-run" THEN [st EXCEPT !.count = @ + 1]
    ELSE IF f \in denied \/ f \notin st.exists
         THEN [st EXCEPT !.log = Append(@, [level |-> "ERROR", msg |-> "Failed",
                                            path |-> FilePath(f, "rel")])]
         ELSE [st EXCEPT !.exists = @ \ {f},
                         !.target = IF action = "move" THEN @ \cup {f} ELSE @,
                         !.count = @ + 1]

RECURSIVE ActOthers(_, _, _, _)
ActOthers(st, files, action, denied) ==
    IF files = <<>> THEN st
    ELSE ActOthers(ActOne(st, Head(files), action, denied), Tail(files), action, denied)

\* Every group keeps its first file.
RECURSIVE ActGroups(_, _, _, _)
ActGroups(st, groups, action, denied) ==
    IF groups = <<>> THEN st
    ELSE ActGroups(ActOthers(st, Tail(Head(groups)), action, denied),
                   Tail(groups), action, denied)

\* act_on_duplicates(groups, action, target): `denied` are the files the
\* operating system refuses to delete or move.
act_on_duplicates(groups, action, target, denied) ==
    /\ act_pc = "start"
    /\ act_groups' = groups
    /\ act_request' = [action |-> action, target |-> target]
    /\ IF InvalidRequest(groups, action, target)
       THEN /\ act_raised' = "ValueError"
            /\ UNCHANGED <<exists, processed, target_made, target_files, log>>
       ELSE LET st == ActGroups([exists |-> exists, target |-> target_files,
                                 count |-> 0, log |-> log], groups, action, denied)
            IN /\ exists' = st.exists
               /\ target_files' = st.target
               /\ target_made' = (target_made \/ action = "move")
               /\ processed' = st.count
               /\ log' = st.log
               /\ act_raised' = "none"
    /\ act_pc' = "done"
    /\ UNCHANGED <<content, nameLen, unreadable, pc, paths, duplicates, strategy,
                   dry_run, keep_files, removed_files, raised,
                   rescanVars, moveVars, scopeVars, normVars, toolVars>>

\* ------------------------------------------- normalized-source hasher
CodeTokens == {"a", "b"}
Blank == " "
Comment == "#c"
Tokens == CodeTokens \cup {Blank, Comment}

Texts == UNION {[1..n -> Tokens] : n \in 0..MaxTextLen}

SourceFiles == {"test1.py", "test2.py"}

Unset == [raised |-> "unset", digest |-> <<>>]

NoNorm ==
    /\ source_text = [f \in SourceFiles |-> <<>>]
    /\ source_exists = SourceFiles
    /\ fingerprints = [f \in SourceFiles |-> Unset]

IsNotComment(tok) == tok # Comment

IsNotBlank(tok) == tok # Blank

\* Variant of StripComments that leaves the text as it is.
StripCommentsKeeping(text) == text

StripComments(text) == SelectSeq(text, IsNotComment)

RemoveWhitespace(text) == SelectSeq(text, IsNotBlank)

\* The digest of a text: SHA-256, for which no two texts with one digest are
\* known; the digest of the empty text is not empty.
sha256(text) == <<"sha256">> \o text

\* normalize_hash(path): ValueError when the file cannot be read.
normalize_hash(f) ==
    /\ fingerprints[f] = Unset
    /\ fingerprints' =
           [fingerprints EXCEPT ![f] =
               IF f \notin source_exists
               THEN [raised |-> "ValueError", digest |-> <<>>]
               ELSE [raised |-> "none",
                     digest |-> sha256(RemoveWhitespace(StripComments(source_text[f])))]]
    /\ UNCHANGED <<dupVars, source_text, source_exists,
                   rescanVars, moveVars, scopeVars, actVars, toolVars>>

\* ------------------------------------------------------------ read_prompt
Chars == {" ", "a"}
Strings == UNION {[1..n -> Chars] : n \in 0..MaxPromptLen}

\* Values that are not strings: Python's None, a JSON object without the
\* key "prompt", a JSON null or number.
None == <<"None">>
NoKey == <<"no key">>
NotAString == <<"null">>
ReadError == <<"error">>

\* file_path is None.
NoPath == "None"

\* What file_path can name: nothing, a directory, bytes that are not UTF-8,
\* a text that is not JSON, a JSON list, a JSON object.
PromptFiles ==
    {[kind |-> k, text |-> <<>>] : k \in {"missing", "dir", "binary", "jsonlist"}}
        \cup {[kind |-> "text", text |-> t] : t \in Strings}
        \cup {[kind |-> "json", text |-> v] : v \in Strings \cup {NoKey, NotAString}}

NotCalled == [raised |-> "unset", value |-> <<>>]

NoPrompt ==
    /\ prompt_args = [source |-> None, file_path |-> NoPath, prompt_name |-> "user",
                      default |-> None]
    /\ prompt_file = [kind |-> "missing", text |-> <<>>]
    /\ prompt_out = NotCalled

RECURSIVE lstrip(_)
lstrip(str) ==
    IF str = <<>> THEN str
    ELSE IF Head(str) = " " THEN lstrip(Tail(str)) ELSE str

Reversed(str) == [i \in 1..Len(str) |-> str[Len(str) + 1 - i]]

\* str.strip()
strip(str) == Reversed(lstrip(Reversed(lstrip(str))))

\* path.read_text(encoding="utf-8"): the characters of the file, ReadError for
\* the exception.
read_text(file) ==
    CASE file.kind = "text" -> file.text
      [] file.kind = "json" -> <<"{">> \o file.text \o <<"}">>
      [] file.kind = "jsonlist" -> <<"[", "]">>
      [] OTHER -> ReadError

\* json.load(f) followed by data.get("prompt", ""): ReadError for the exception
\* of a text that is not JSON or of a document that is not an object.
json_prompt(file) ==
    IF file.kind # "json" THEN ReadError
    ELSE IF file.text = NoKey THEN <<>>
    ELSE file.text

\* The if/elif chain: the prompt, or the exception raised before there is
\* one.
ResolvePrompt(source, file_path, prompt_name, default, file) ==
    IF source # None THEN [raised |-> "none", value |-> source]
    ELSE IF file_path # NoPath
         THEN IF file.kind \in {"missing", "dir"}
              THEN [raised |-> "ValueError", value |-> <<>>]
              ELSE LET prompt == IF prompt_name = "system" /\ file_path = "p.json"
                                 THEN json_prompt(file)
                                 ELSE read_text(file)
                   IN IF prompt = ReadError
                      THEN [raised |-> "ValueError", value |-> <<>>]
                      ELSE [raised |-> "none", value |-> prompt]
    ELSE IF default # None THEN [raised |-> "none", value |-> default]
    ELSE [raised |-> "ValueError", value |-> <<>>]

\* read_prompt: `not prompt.strip()` raises AttributeError when the prompt is
\* not a string.
read_prompt(source, file_path, prompt_name, default, file) ==
    LET r == ResolvePrompt(source, file_path, prompt_name, default, file)
    IN IF r.raised # "none" THEN r
       ELSE IF r.value = NotAString THEN [raised |-> "AttributeError", value |-> <<>>]
       ELSE IF strip(r.value) = <<>> THEN [raised |-> "ValueError", value |-> <<>>]
       ELSE r

PromptArgs ==
    [source : Strings \cup {None}, file_path : {NoPath, "p.txt", "p.json"},
     prompt_name : {"system", "user"}, default : {None, <<" ">>, <<"a">>}]

InitPrompt ==
    /\ prompt_args \in PromptArgs
    /\ prompt_file \in PromptFiles
    /\ prompt_out = NotCalled

ReadPrompt ==
    /\ prompt_out = NotCalled
    /\ prompt_out' = read_prompt(prompt_args.source, prompt_args.file_path,
                                 prompt_args.prompt_name, prompt_args.default,
                                 prompt_file)
    /\ UNCHANGED <<prompt_args, prompt_file, allBut_prompt>>

\* --------------------------------------------------------------- get_page
\* What requests.get and raise_for_status can do: answer with a text, or
\* raise a RequestException (a timeout, an HTTP error status).
PageTexts == {"", "<html>"}
Failures == {"Timeout", "HTTPError"}

Running == [done |-> FALSE, value |-> "None"]
Returned(v) == [done |-> TRUE, value |-> v]

NoPage ==
    /\ page_retries = 0
    /\ page_attempt = 0
    /\ page_requests = <<>>
    /\ page_sleeps = <<>>
    /\ page_log = <<>>
    /\ page_result = Running

\* Variant of MoreAttempts with the comparison `attempt < retries`.
MoreAttemptsAlways(attempt, retries) == attempt < retries

\* if attempt < retries - 1
MoreAttempts(attempt, retries) == attempt < retries - 1

\* One iteration of `for attempt in range(retries)` in which the request
\* succeeds: return response.text.
get_page_ok(text) ==
    /\ ~page_result.done
    /\ page_attempt < page_retries
    /\ page_requests' = Append(page_requests, "ok")
    /\ page_result' = Returned(text)
    /\ page_attempt' = page_attempt + 1
    /\ UNCHANGED <<page_retries, page_sleeps, page_log>>

\* One iteration in which the request raises RequestException.
get_page_failed(e) ==
    /\ ~page_result.done
    /\ page_attempt < page_retries
    /\ page_requests' = Append(page_requests, e)
    /\ IF MoreAttempts(page_attempt, page_retries)
       THEN /\ page_sleeps' = Append(page_sleeps, 2 ^ page_attempt)
            /\ page_log' = Append(page_log, [level |-> "WARNING", attempt |-> page_attempt + 1])
            /\ page_result' = page_result
       ELSE /\ page_sleeps' = page_sleeps
            /\ page_log' = page_log \o <<[level |-> "WARNING", attempt |-> page_attempt + 1],
                                          [level |-> "ERROR", attempt |-> page_retries]>>
            /\ page_result' = Returned("None")
    /\ page_attempt' = page_attempt + 1
    /\ UNCHANGED page_retries

\* range(retries) is empty: the function ends without a return statement.
get_page_no_attempt ==
    /\ ~page_result.done
    /\ page_attempt >= page_retries
    /\ page_result' = Returned("None")
    /\ UNCHANGED <<page_retries, page_attempt, page_requests, page_sleeps, page_log>>

\* ---------------------------------------------------------- crawl_website
Urls == {"/", "/a", "/b"}
UrlOrder == <<"/", "/a", "/b">>
start_url == "/"

\* extract_links(html, url): the same-domain links of the page, in the order
\* of the document.
extract_links(url) == SelectSeq(UrlOrder, LAMBDA u : u \in crawl_links[url])

NoCrawl ==
    /\ crawl_links = [u \in Urls |-> {}]
    /\ crawl_args = [max_depth |-> 0, max_pages |-> 0]
    /\ visited = {}
    /\ to_visit = <<>>
    /\ all_urls = <<>>
    /\ fetched = <<>>
    /\ crawl_failed = {}
    /\ crawl_pc = "done"

\* Variant of Popped for `to_visit[0]`: the entry stays in the queue.
Peeked(queue) == queue

\* to_visit.pop(0)
Popped(queue) == Tail(queue)

\* Variant of Skipped without the test `url in visited`.
SkippedByDepth(url, depth) == depth > crawl_args.max_depth

\* if url in visited or depth > max_depth: continue
Skipped(url, depth) == url \in visited \/ depth > crawl_args.max_depth

\* The loop condition is false: return all_urls.
crawl_return ==
    /\ crawl_pc = "loop"
    /\ to_visit = <<>> \/ Cardinality(visited) >= crawl_args.max_pages
    /\ crawl_pc' = "done"
    /\ UNCHANGED <<crawl_links, crawl_args, visited, to_visit, all_urls, fetched,
                   crawl_failed>>

\* An iteration that ends at `continue`: the url was visited or is too deep.
crawl_skip ==
    /\ crawl_pc = "loop"
    /\ to_visit # <<>>
    /\ Cardinality(visited) < crawl_args.max_pages
    /\ Skipped(Head(to_visit)[1], Head(to_visit)[2])
    /\ to_visit' = Popped(to_visit)
    /\ UNCHANGED <<crawl_links, crawl_args, visited, all_urls, fetched, crawl_failed,
                   crawl_pc>>

\* An iteration that fetches the url; `ok` is whether get_page returned a
\* page.
crawl_visit(ok) ==
    /\ crawl_pc = "loop"
    /\ to_visit # <<>>
    /\ Cardinality(visited) < crawl_args.max_pages
    /\ LET url == Head(to_visit)[1]
           depth == Head(to_visit)[2]
           new == SelectSeq(extract_links(url), LAMBDA link : link \notin visited \cup {url})
       IN /\ ~Skipped(url, depth)
          /\ visited' = visited \cup {url}
          /\ all_urls' = Append(all_urls, url)
          /\ fetched' = Append(fetched, url)
          /\ crawl_failed' = IF ok THEN crawl_failed ELSE crawl_failed \cup {url}
          /\ to_visit' =
                 IF ok /\ depth < crawl_args.max_depth
                 THEN Popped(to_visit) \o [i \in 1..Len(new) |-> <<new[i], depth + 1>>]
                 ELSE Popped(to_visit)
    /\ UNCHANGED <<crawl_links, crawl_args, crawl_pc>>

\* --------------------------------------------------------------- EmailBot
Msgs == 1..NumMsgs

\* Addresses are short strings over three characters; "B" is an upper-case
\* letter.
Senders == {<<"a">>, <<"B">>, <<"a", "b">>}
AuthEntries == {<<"a">>, <<"b">>, <<"B">>}

\* Subjects: a registered command, a command that is not registered, a
\* subject that does not start with "cmd:".
Subjects == {"cmd:start", "cmd:other", "hello"}

NoBot ==
    /\ mail = [m \in Msgs |-> [from |-> <<"a">>, subject |-> "hello"]]
    /\ seen = {}
    /\ authorized_senders = {}
    /\ connection = "None"
    /\ handled = <<>>
    /\ responses = <<>>
    /\ bot_log = <<>>
    /\ bot_raised = "none"
    /\ polls = 0

\* str.lower()
lower(str) == [i \in DOMAIN str |-> IF str[i] = "B" THEN "b" ELSE str[i]]

\* sub in str
Contains(str, sub) ==
    \E i \in 1..(Len(str) - Len(sub) + 1) : SubSeq(str, i, i + Len(sub) - 1) = sub

\* Variant of is_authorized that lets every sender pass.
is_authorized_all(sender) == TRUE

\* EmailBot.is_authorized
is_authorized(sender) ==
    IF authorized_senders = {} THEN TRUE
    ELSE \E auth \in authorized_senders : Contains(lower(sender), auth)

\* EmailBot.process_email on message m: st = [seen, handled, responses, log,
\* raised]; handler_raises is whether the command handler raises.
process_email(st, m, handler_raises) ==
    LET sender == mail[m].from
        subject == mail[m].subject
    IN IF ~is_authorized(sender)
       THEN [st EXCEPT !.log = Append(@, [level |-> "WARNING", msg |-> m])]
       ELSE IF subject = "hello" THEN st
       ELSE IF subject = "cmd:start"
            THEN [st EXCEPT
                     !.log = IF handler_raises
                             THEN @ \o <<[level |-> "INFO", msg |-> m],
                                         [level |-> "ERROR", msg |-> m]>>
                             ELSE Append(@, [level |-> "INFO", msg |-> m]),
                     !.handled = Append(@, m),
                     !.responses = Append(@, [to |-> sender, msg |-> m,
                                              subject |-> IF handler_raises THEN "failed"
                                                          ELSE "completed"])]
            ELSE [st EXCEPT
                     !.log = Append(@, [level |-> "INFO", msg |-> m]),
                     !.responses = Append(@, [to |-> sender, msg |-> m,
                                              subject |-> "Unknown command"])]

\* connection.store(str(msg_id), "-FLAGS", "\\Seen"): the server removes the
\* flag \\Seen from the message.
store_minus_seen(flags, m) == flags \ {m}

\* connection.fetch(str(message_id), "(RFC822)"): the server sets \\Seen.
fetch_rfc822(flags, m) == flags \cup {m}

\* The loop over message_ids; fetch_fails are the messages whose fetch
\* fails, store_raises the message (0: none) at which store raises.
RECURSIVE ProcessAll(_, _, _, _, _)
ProcessAll(st, ids, fetch_fails, store_raises, handler_raises) ==
    IF ids = <<>> THEN st
    ELSE LET m == Head(ids)
         IN IF m \in fetch_fails
            THEN ProcessAll([st EXCEPT !.log = Append(@, [level |-> "ERROR", msg |-> m])],
                            Tail(ids), fetch_fails, store_raises, handler_raises)
            ELSE LET st1 == process_email([st EXCEPT !.seen = fetch_rfc822(@, m)],
                                          m, handler_raises)
                 IN IF m = store_raises THEN [st1 EXCEPT !.raised = "error"]
                    ELSE ProcessAll([st1 EXCEPT !.seen = store_minus_seen(@, m)],
                                    Tail(ids), fetch_fails, store_raises, handler_raises)

\* search_emails("UNSEEN"): the messages without \\Seen, in ascending order.
RECURSIVE UnseenFrom(_)
UnseenFrom(m) ==
    IF m > NumMsgs THEN <<>>
    ELSE IF m \in seen THEN UnseenFrom(m + 1)
    ELSE <<m>> \o UnseenFrom(m + 1)

\* IMAPClient.disconnect: close() and logout() inside try/except (close raises
\* and logout is skipped when no folder is selected), then connection = None.
disconnect(conn) == "None"

\* run_once with a connection that is refused: IMAP4_SSL(...) raises inside
\* connect, which returns False; self.connection keeps its value.
run_once_refused ==
    /\ polls < MaxPolls
    /\ polls' = polls + 1
    /\ bot_log' = bot_log \o <<[level |-> "ERROR", msg |-> 0], [level |-> "ERROR", msg |-> 0]>>
    /\ bot_raised' = "none"
    /\ UNCHANGED <<mail, seen, authorized_senders, connection, handled, responses>>

\* run_once with a login that fails: connect has stored the new connection
\* in self.connection before login raises; connect returns False and
\* run_once returns.
run_once_login_failed ==
    /\ polls < MaxPolls
    /\ polls' = polls + 1
    /\ connection' = "NONAUTH"
    /\ bot_log' = bot_log \o <<[level |-> "ERROR", msg |-> 0], [level |-> "ERROR", msg |-> 0]>>
    /\ bot_raised' = "none"
    /\ UNCHANGED <<mail, seen, authorized_senders, handled, responses>>

\* run_once with a folder that cannot be selected: return inside try, then
\* finally.
run_once_no_folder ==
    /\ polls < MaxPolls
    /\ polls' = polls + 1
    /\ connection' = disconnect("AUTH")
    /\ bot_log' = Append(bot_log, [level |-> "INFO", msg |-> 0])
    /\ bot_raised' = "none"
    /\ UNCHANGED <<mail, seen, authorized_senders, handled, responses>>

\* run_once with the folder selected; search_ok is whether the search
\* succeeds.
run_once_selected(search_ok, fetch_fails, store_raises, handler_raises) ==
    /\ polls < MaxPolls
    /\ polls' = polls + 1
    /\ LET message_ids == IF search_ok THEN UnseenFrom(1) ELSE <<>>
           st == ProcessAll([seen |-> seen, handled |-> handled, responses |-> responses,
                             log |-> Append(bot_log, [level |-> "INFO", msg |-> 0]),
                             raised |-> "none"],
                            message_ids, fetch_fails, store_raises, handler_raises)
       IN /\ seen' = st.seen
          /\ handled' = st.handled
          /\ responses' = st.responses
          /\ bot_log' = st.log
          /\ bot_raised' = st.raised
    /\ connection' = disconnect("SELECTED")
    /\ UNCHANGED <<mail, authorized_senders>>

\* ------------------------------------------------ remove_empty_directories
\* Names of the directories of a tree; a path is the sequence of its parts
\* below root, root itself is <<>>.
PartNames == {"d", "e"}

RECURSIVE PathsOfDepth(_)
PathsOfDepth(n) ==
    IF n = 0 THEN {<<>>}
    ELSE {Append(p, x) : p \in PathsOfDepth(n - 1), x \in PartNames}

TreePaths == UNION {PathsOfDepth(n) : n \in 1..MaxDirDepth}

\* A directory exists only inside an existing directory.
IsTree(dirs) == \A p \in dirs : Len(p) > 1 => SubSeq(p, 1, Len(p) - 1) \in dirs

NoTree ==
    /\ tree_dirs = {}
    /\ tree_files = {}
    /\ tree_given = [dirs |-> {}, files |-> {}]
    /\ tree_removed = <<>>
    /\ tree_log = <<>>
    /\ tree_pc = "start"

\* Order in which a directory lists its entries.
PartRank(x) == IF x = "d" THEN 1 ELSE 2

RECURSIVE PathRank(_)
PathRank(p) == IF p = <<>> THEN 0 ELSE 3 * PathRank(SubSeq(p, 1, Len(p) - 1)) + PartRank(p[Len(p)])

\* The paths of a set as rglob yields them.
RECURSIVE Listing(_)
Listing(entries) ==
    IF entries = {} THEN <<>>
    ELSE LET p == CHOOSE q \in entries : \A r \in entries : PathRank(q) <= PathRank(r)
         IN <<p>> \o Listing(entries \ {p})

\* Variant of DepthOrder without reverse=True: shallow paths first.
DepthOrderAscending == [i \in 1..MaxDirDepth |-> i]

\* sorted(..., key=lambda p: len(p.parts), reverse=True): the depths in
\* the order they are processed.
DepthOrder == [i \in 1..MaxDirDepth |-> MaxDirDepth + 1 - i]

\* sorted(root.rglob("*"), ...) restricted to the paths with is_dir(); the
\* sort is stable, so paths of one depth stay in listing order.
RECURSIVE SortedDirs(_, _)
SortedDirs(dirs, i) ==
    IF i > MaxDirDepth THEN <<>>
    ELSE Listing({p \in dirs : Len(p) = DepthOrder[i]}) \o SortedDirs(dirs, i + 1)

\* rmdir succeeds on a directory that holds no file and no directory.
IsEmptyDir(p, dirs, regular) ==
    /\ \A f \in regular : f.dir # p
    /\ \A q \in dirs : ~(Len(q) = Len(p) + 1 /\ SubSeq(q, 1, Len(p)) = p)

\* The loop of remove_empty_directories over the sorted paths; st = [dirs,
\* removed, log].
RECURSIVE RmdirAll(_, _, _)
RmdirAll(st, entries, regular) ==
    IF entries = <<>> THEN st
    ELSE LET p == Head(entries)
         IN IF IsEmptyDir(p, st.dirs, regular)
            THEN RmdirAll([dirs |-> st.dirs \ {p},
                           removed |-> Append(st.removed, p),
                           log |-> Append(st.log, [level |-> "INFO", path |-> p])],
                          Tail(entries), regular)
            ELSE RmdirAll(st, Tail(entries), regular)

remove_empty_directories ==
    /\ tree_pc = "start"
    /\ LET st == RmdirAll([dirs |-> tree_dirs, removed |-> <<>>, log |-> tree_log],
                          SortedDirs(tree_dirs, 1), tree_files)
       IN /\ tree_dirs' = st.dirs
          /\ tree_removed' = st.removed
          /\ tree_log' = Append(st.log, [level |-> "INFO", path |-> <<>>])
    /\ tree_pc' = "done"
    /\ UNCHANGED <<tree_files, tree_given>>

NoTools ==
    /\ NoPrompt
    /\ NoPage
    /\ NoCrawl
    /\ NoBot
    /\ NoTree

\* Nothing has been called yet.
NoCall ==
    /\ exists = Files
    /\ pc = "start"
    /\ paths = <<>>
    /\ duplicates = <<>>
    /\ strategy = "longer"
    /\ dry_run = FALSE
    /\ keep_files = <<>>
    /\ removed_files = <<>>
    /\ log = <<>>
    /\ raised = "none"

InitCall ==
    /\ NoCall
    /\ NoRescan
    /\ NoMove
    /\ NoScope
    /\ NoAct
    /\ NoNorm
    /\ NoTools

\* The duplicate finder is not used.
NoDuplicates ==
    /\ content = [f \in Files |-> "X"]
    /\ nameLen = [f \in Files |-> 1]
    /\ unreadable = {}
    /\ NoCall
    /\ NoRescan

\* Scanning any tree, unreadable files and equal digests included.
InitScan ==
    /\ content \in [Files -> Contents]
    /\ nameLen = [f \in Files |-> 1]
    /\ unreadable \in {U \in SUBSET Files : Cardinality(U) <= MaxUnreadable}
    /\ InitCall

Scan == \E ps \in PathLists : find_duplicates(ps)

NextScan == Scan

SpecScan == InitScan /\ [][NextScan]_vars

\* Scanning and then resolving: every file is readable, there are two
\* contents (the first file's is called "X"), and a name is one of the
\* shortest or one of the longest.
Init ==
    /\ content \in {c \in [Files -> {"X", "Y"}] : c[1] = "X"}
    /\ nameLen \in [Files -> {1, MaxNameLen}]
    /\ unreadable = {}
    /\ InitCall

\* A dry run never calls unlink(), so nothing can be refused.
Resolve ==
    \E strat \in Strategies :
        \/ remove_duplicates(strat, TRUE, {})
        \/ \E denied \in DeniedSets : remove_duplicates(strat, FALSE, denied)

ScanTree == \E ps \in TreeLists : find_duplicates(ps)

Next == ScanTree \/ Resolve

Spec == Init /\ [][Next]_vars

\* Scanning and then choosing the files to keep (a dry run), for names of
\* every length.
InitKeep ==
    /\ content \in [Files -> {"X", "Y"}]
    /\ nameLen \in [Files -> 1..MaxNameLen]
    /\ unreadable = {}
    /\ InitCall

Report == \E strat \in Strategies : remove_duplicates(strat, TRUE, {})

NextKeep == ScanTree \/ Report

SpecKeep == InitKeep /\ [][NextKeep]_vars

\* Scanning the same tree twice.
NextRescan == ScanTree \/ find_duplicates_again

SpecRescan == InitScan /\ [][NextRescan]_vars

\* Moving old files into a target directory that may already hold a file.
InitMove ==
    /\ NoDuplicates
    /\ NoScope
    /\ NoAct
    /\ NoNorm
    /\ NoTools
    /\ source_dir = EmptyDir
    /\ \E n \in SourceNames, made \in BOOLEAN :
           /\ dest_made = made
           /\ dest_dir \in {EmptyDir} \cup
                  (IF made THEN {[EmptyDir EXCEPT ![n] = Preexisting]} ELSE {})
    /\ created = 0
    /\ moved_files = <<>>
    /\ move_log = <<>>
    /\ last = "none"

MoveOld ==
    /\ \E order \in GlobOrders(source_dir), old \in SUBSET Present(source_dir) :
           \E failing \in SUBSET old :
               /\ Cardinality(failing) <= MaxMoveFailures
               /\ move_files_by_age(order, old, failing)
    /\ UNCHANGED <<dupVars, rescanVars, scopeVars, actVars, normVars, toolVars>>

NewFile ==
    /\ CreateSource
    /\ UNCHANGED <<dupVars, rescanVars, scopeVars, actVars, normVars, toolVars>>

NextMove == NewFile \/ MoveOld

SpecMove == InitMove /\ [][NextMove]_vars

\* Scanning a tree of directories with a scope.
InitScope ==
    /\ content \in {c \in [Files -> {"X", "Y"}] : c[1] = "X"}
    /\ nameLen = [f \in Files |-> 1]
    /\ unreadable = {}
    /\ NoCall
    /\ NoRescan
    /\ NoMove
    /\ NoAct
    /\ NoNorm
    /\ NoTools
    /\ parents \in [Files -> ParentPaths]
    /\ suffix \in [Files -> Exts]
    /\ scope = NoFilter
    /\ scoped = <<>>
    /\ scope_raised = "none"
    /\ scope_pc = "start"

ScanScope ==
    \E ext \in SUBSET Exts, ign \in SUBSET DirNames :
        /\ Cardinality(ext) <= 1
        /\ core_find_duplicates([root |-> "dir", extensions |-> ext, ignore_dirs |-> ign])

ScanBadRoot ==
    \E root \in {"missing", "file"} :
        core_find_duplicates([NoFilter EXCEPT !.root = root])

NextScope == ScanScope \/ ScanBadRoot

SpecScope == InitScope /\ [][NextScope]_vars

\* Acting on groups handed over by the caller.
GroupArgs ==
    {<<>>} \cup
    {<<g>> : g \in {s \in UNION {[1..n -> Files] : n \in 2..NumFiles} :
                        \A i, j \in DOMAIN s : i # j => s[i] # s[j]}}

InitAct ==
    /\ NoDuplicates
    /\ NoMove
    /\ NoScope
    /\ NoNorm
    /\ NoAct
    /\ NoTools

Act ==
    \E groups \in GroupArgs, action \in Actions, target \in Targets :
        \E denied \in DeniedSets :
            act_on_duplicates(groups, action, target, denied)

NextAct == Act

SpecAct == InitAct /\ [][NextAct]_vars

\* Hashing two source files, the second of which may be missing.
InitNorm ==
    /\ NoDuplicates
    /\ NoMove
    /\ NoScope
    /\ NoAct
    /\ NoTools
    /\ source_text \in [SourceFiles -> Texts]
    /\ source_exists \in {SourceFiles, {"test1.py"}}
    /\ source_text["test2.py"] = <<>> \/ source_exists = SourceFiles
    /\ fingerprints = [f \in SourceFiles |-> Unset]

NextNorm == \E f \in SourceFiles : normalize_hash(f)

SpecNorm == InitNorm /\ [][NextNorm]_vars

\* The earlier parts are not used.
NoFiles ==
    /\ NoDuplicates
    /\ NoMove
    /\ NoScope
    /\ NoAct
    /\ NoNorm

\* One call of read_prompt with any arguments and any file.
InitPromptCall ==
    /\ NoFiles
    /\ InitPrompt
    /\ NoPage
    /\ NoCrawl
    /\ NoBot
    /\ NoTree

NextPrompt == ReadPrompt

SpecPrompt == InitPromptCall /\ [][NextPrompt]_vars

\* One call of get_page with any number of retries and any server.
InitPage ==
    /\ NoFiles
    /\ NoPrompt
    /\ page_retries \in 0..MaxRetries
    /\ page_attempt = 0
    /\ page_requests = <<>>
    /\ page_sleeps = <<>>
    /\ page_log = <<>>
    /\ page_result = Running
    /\ NoCrawl
    /\ NoBot
    /\ NoTree

PageOk == (\E text \in PageTexts : get_page_ok(text)) /\ UNCHANGED allBut_page

PageFailed == (\E e \in Failures : get_page_failed(e)) /\ UNCHANGED allBut_page

PageNoAttempt == get_page_no_attempt /\ UNCHANGED allBut_page

NextPage == PageOk \/ PageFailed \/ PageNoAttempt

SpecPage == InitPage /\ [][NextPage]_vars

\* One call of crawl_website on any site of three pages.
InitCrawl ==
    /\ NoFiles
    /\ NoPrompt
    /\ NoPage
    /\ crawl_links \in [Urls -> SUBSET Urls]
    /\ crawl_args \in [max_depth : 0..MaxDepth, max_pages : 0..MaxPages]
    /\ visited = {}
    /\ to_visit = <<<<start_url, 0>>>>
    /\ all_urls = <<>>
    /\ fetched = <<>>
    /\ crawl_failed = {}
    /\ crawl_pc = "loop"
    /\ NoBot
    /\ NoTree

CrawlReturn == crawl_return /\ UNCHANGED allBut_crawl

CrawlSkip == crawl_skip /\ UNCHANGED allBut_crawl

CrawlVisit == (\E ok \in BOOLEAN : crawl_visit(ok)) /\ UNCHANGED allBut_crawl

NextCrawl == CrawlReturn \/ CrawlSkip \/ CrawlVisit

SpecCrawl == InitCrawl /\ [][NextCrawl]_vars

\* The interpreter keeps executing the loop.
SpecCrawlFair == SpecCrawl /\ WF_vars(NextCrawl)

\* A bot that polls a mailbox of unread messages.
InitBot ==
    /\ NoFiles
    /\ NoPrompt
    /\ NoPage
    /\ NoCrawl
    /\ NoTree
    /\ mail \in [Msgs -> [from : Senders, subject : Subjects]]
    /\ seen = {}
    /\ authorized_senders \in {{}, {<<"b">>}, {<<"B">>}, {<<"a">>, <<"b">>}}
    /\ connection = "None"
    /\ handled = <<>>
    /\ responses = <<>>
    /\ bot_log = <<>>
    /\ bot_raised = "none"
    /\ polls = 0

PollRefused == run_once_refused /\ UNCHANGED allBut_bot

PollLoginFailed == run_once_login_failed /\ UNCHANGED allBut_bot

PollNoFolder == run_once_no_folder /\ UNCHANGED allBut_bot

PollSelected ==
    /\ \E search_ok, handler_raises \in BOOLEAN :
           \E fetch_fails \in {{}} \cup {{m} : m \in Msgs}, store_raises \in {0} \cup Msgs :
               run_once_selected(search_ok, fetch_fails, store_raises, handler_raises)
    /\ UNCHANGED allBut_bot

NextBot == PollRefused \/ PollLoginFailed \/ PollNoFolder \/ PollSelected

SpecBot == InitBot /\ [][NextBot]_vars

\* The subsets of S with at most k elements.
RECURSIVE UpTo(_, _)
UpTo(S, k) ==
    IF k = 0 THEN {{}}
    ELSE UpTo(S, k - 1) \cup {T \cup {x} : T \in UpTo(S, k - 1), x \in S}

\* A tree of directories with at most MaxTreeFiles regular files in it.
InitTree ==
    /\ NoFiles
    /\ NoPrompt
    /\ NoPage
    /\ NoCrawl
    /\ NoBot
    /\ tree_dirs \in {dirs \in SUBSET TreePaths : IsTree(dirs)}
    /\ tree_files \in UpTo([dir : tree_dirs \cup {<<>>}, name : {"f"}], MaxTreeFiles)
    /\ tree_given = [dirs |-> tree_dirs, files |-> tree_files]
    /\ tree_removed = <<>>
    /\ tree_log = <<>>
    /\ tree_pc = "start"

RemoveEmpty == remove_empty_directories /\ UNCHANGED allBut_tree

NextTree == RemoveEmpty

SpecTree == InitTree /\ [][NextTree]_vars

\* Scanning, another process deleting files, then a real run in which the
\* operating system refuses nothing.
RemoveAll == \E strat \in Strategies : remove_duplicates(strat, FALSE, {})

NextExternal == ScanTree \/ ExternalDelete \/ RemoveAll

SpecExternal == Init /\ [][NextExternal]_vars

TypeOK ==
    /\ content \in [Files -> Contents]
    /\ nameLen \in [Files -> 1..MaxNameLen]
    /\ unreadable \subseteq Files
    /\ exists \subseteq Files
    /\ pc \in {"start", "scanned", "rescanned", "resolved"}
    /\ paths \in PathLists
    /\ strategy \in Strategies
    /\ dry_run \in BOOLEAN
    /\ raised \in {"none", "FileNotFoundError"}

\* ------------------------------------------------------------ properties
Range(q) == {q[i] : i \in DOMAIN q}

Groups == 1..Len(duplicates)

\* The regular files a call with the list `paths` is asked to look at.
InScope(f) ==
    \E i \in DOMAIN paths :
        \/ paths[i].kind = "dir"
        \/ paths[i].kind = "file" /\ paths[i].file = f

Grouped(f) == \E g \in Groups : \E p \in Range(duplicates[g].files) : p.file = f

NoError == \A i \in DOMAIN log : log[i].level # "ERROR"

\* C1: any two files that find_duplicates returns in one group have
\* byte-identical content, and a file whose content is unique among the
\* scanned files is in no returned group.
C1_GroupedFilesAreIdentical ==
    pc = "scanned" =>
        /\ \A g \in Groups : \A p, q \in Range(duplicates[g].files) :
               content[p.file] = content[q.file]
        /\ \A f \in Files :
               (InScope(f) /\ \A f2 \in Files \ {f} : InScope(f2) => content[f2] # content[f])
                   => ~Grouped(f)

\* C2: any two readable files in scope with byte-identical content have the
\* same fingerprint and are returned together in one group; three files with
\* contents X, X, Y give exactly one group, of size 2, holding the first two.
C2_IdenticalFilesAreGrouped ==
    pc = "scanned" =>
        /\ \A f1, f2 \in Files \ unreadable :
               (f1 # f2 /\ InScope(f1) /\ InScope(f2) /\ content[f1] = content[f2])
                   => \E g \in Groups :
                          /\ \E p \in Range(duplicates[g].files) : p.file = f1
                          /\ \E p \in Range(duplicates[g].files) : p.file = f2
        /\ (/\ paths = <<DirArg("rel")>>
            /\ unreadable = {}
            /\ content[1] = "X" /\ content[2] = "X"
            /\ \A f \in Files \ {1, 2} : content[f] = "Y" /\ f = 3)
               => /\ Len(duplicates) = 1
                  /\ duplicates[1].files = <<FilePath(1, "rel"), FilePath(2, "rel")>>

C2_Witness ==
    /\ pc = "scanned"
    /\ paths = <<DirArg("rel")>>
    /\ unreadable = {}
    /\ content[1] = "X" /\ content[2] = "X" /\ content[3] = "Y"
    /\ Len(duplicates) = 1

\* C3: every group of the mapping find_duplicates returns has at least two
\* members.
C3_GroupsHaveTwoMembers ==
    pc = "scanned" => \A g \in Groups : Len(duplicates[g].files) >= 2

\* A group was returned and a hashed file was left out of the result.
C3_Witness ==
    /\ pc = "scanned"
    /\ Len(duplicates) >= 1
    /\ \E f \in Files \ unreadable : InScope(f) /\ ~Grouped(f)

\* The files of group g that are on disk.
Remaining(g) == {p.file : p \in Range(duplicates[g].files)} \cap exists

\* C4: the resolver keeps exactly one file of every group; the kept file is
\* never deleted and never listed among the removed files, and when every
\* deletion succeeds exactly one file of the group remains on disk.
C4_KeptFileSurvives ==
    pc = "resolved" =>
        /\ Len(keep_files) = Len(duplicates)
        /\ \A g \in Groups :
               /\ keep_files[g] \in Range(duplicates[g].files)
               /\ keep_files[g].file \in exists
               /\ keep_files[g] \notin Range(removed_files)
               /\ (~dry_run /\ NoError) => Cardinality(Remaining(g)) = 1

\* The first position of path p in the list q.
FirstIndex(q, p) == CHOOSE i \in DOMAIN q : q[i] = p /\ \A j \in 1..(i - 1) : q[j] # p

NameLen(p) == nameLen[p.file]

\* C5: under "longer" (resp. "shorter") the kept file has a name of maximal
\* (resp. minimal) length in its group, and among the files that tie on that
\* length it is the one discovered first.
C5_KeepByNameLength ==
    pc = "resolved" =>
        \A g \in Groups :
            LET files == duplicates[g].files
                keep == keep_files[g]
            IN /\ keep \in Range(files)
               /\ strategy = "longer" =>
                      /\ \A p \in Range(files) : NameLen(p) <= NameLen(keep)
                      /\ \A j \in 1..(FirstIndex(files, keep) - 1) :
                             NameLen(files[j]) < NameLen(keep)
               /\ strategy = "shorter" =>
                      /\ \A p \in Range(files) : NameLen(p) >= NameLen(keep)
                      /\ \A j \in 1..(FirstIndex(files, keep) - 1) :
                             NameLen(files[j]) > NameLen(keep)

\* "longer" with a group whose first file is shorter and whose second and
\* third files tie on the maximal length: the second one is kept.
C5_Witness ==
    /\ pc = "resolved"
    /\ strategy = "longer"
    /\ \E g \in Groups :
           LET files == duplicates[g].files
           IN /\ Len(files) >= 3
              /\ NameLen(files[1]) < NameLen(files[2])
              /\ NameLen(files[2]) = NameLen(files[3])
              /\ files[2].file # files[3].file
              /\ keep_files[g] = files[2]

Failed(p) == \E i \in DOMAIN log : log[i].level = "ERROR" /\ log[i].path = p

\* C6: under "first" with deletion, the first-discovered file of each group
\* is kept and every other member is removed; for the single group (a, b)
\* this removes b, keeps a and reports one file.
C6_FirstKeepsFirstDiscovered ==
    (pc = "resolved" /\ strategy = "first" /\ ~dry_run) =>
        /\ \A g \in Groups :
               LET files == duplicates[g].files
               IN /\ keep_files[g] = files[1]
                  /\ files[1].file \in exists
                  /\ \A p \in Range(files) :
                         p # files[1] => (p.file \notin exists \/ Failed(p))
        /\ (/\ Len(duplicates) = 1
            /\ Len(duplicates[1].files) = 2
            /\ duplicates[1].files[1].file # duplicates[1].files[2].file
            /\ NoError)
               => /\ removed_files = <<duplicates[1].files[2]>>
                  /\ duplicates[1].files[1].file \in exists
                  /\ duplicates[1].files[2].file \notin exists

RECURSIVE SumOfOthers(_)
SumOfOthers(groups) ==
    IF groups = <<>> THEN 0
    ELSE (Len(Head(groups).files) - 1) + SumOfOthers(Tail(groups))

\* C7: when no action fails, the number of files reported as acted upon is
\* the sum over the groups of (group size - 1).
C7_CountIsSumOfGroupSizesMinusOne ==
    (pc = "resolved" /\ NoError) => Len(removed_files) = SumOfOthers(duplicates)

\* C8: a dry run leaves every file on disk and reports exactly the files a
\* real run on the same groups with the same strategy removes when none of
\* its removals fails.
C8_DryRunReportsWithoutTouching ==
    [][(pc = "scanned" /\ pc' = "resolved" /\ dry_run') =>
           /\ exists' = exists
           /\ LET real == RemoveGroups([exists |-> exists, removed |-> <<>>,
                                        log |-> <<>>, keeps |-> <<>>],
                                       duplicates, strategy', FALSE, {})
              IN (\A i \in DOMAIN real.log : real.log[i].level # "ERROR")
                     => removed_files' = real.removed]_vars

C8_Witness ==
    /\ pc = "resolved"
    /\ dry_run
    /\ Len(removed_files) >= 2
    /\ exists = Files

\* The non-kept members of the groups, in processing order.
RECURSIVE Attempts(_, _)
Attempts(groups, keeps) ==
    IF groups = <<>> THEN <<>>
    ELSE LET keep == Head(keeps)
             IsOther(p) == p # keep
         IN SelectSeq(Head(groups).files, IsOther) \o Attempts(Tail(groups), Tail(keeps))

IsInfo(r) == r.level = "INFO"
IsErr(r) == r.level = "ERROR"
IsResolverRecord(r) == r.level # "WARNING"
ResolverLog == SelectSeq(log, IsResolverRecord)

\* C9: a failed deletion is logged, the file is left out of the result, and
\* every remaining file of the group and of the later groups is still
\* processed: one INFO record per non-kept member in order, an ERROR record
\* right after the INFO record of each failed one, and the result lists the
\* members without an ERROR record, in order.
C9_FailedDeleteIsSkipped ==
    (pc = "resolved" /\ ~dry_run) =>
        LET rl == ResolverLog
            infos == SelectSeq(rl, IsInfo)
            att == Attempts(duplicates, keep_files)
            FailedAt(i) == i < Len(rl) /\ rl[i + 1].level = "ERROR"
            okIdx == {i \in DOMAIN rl : rl[i].level = "INFO" /\ ~FailedAt(i)}
        IN /\ Len(infos) = Len(att)
           /\ \A k \in DOMAIN att : infos[k].path = att[k]
           /\ \A i \in DOMAIN rl :
                  rl[i].level = "ERROR" =>
                      i > 1 /\ rl[i - 1].level = "INFO" /\ rl[i - 1].path = rl[i].path
           /\ Len(removed_files) = Cardinality(okIdx)
           /\ Len(removed_files) + Len(SelectSeq(rl, IsErr)) = Len(att)
           /\ \A i \in okIdx : rl[i].path \in Range(removed_files)
           /\ \A p \in Range(att) : p.file \in exists => (Failed(p) /\ p \notin Range(removed_files))

\* A deletion was refused (the file is still on disk), and members of the
\* same group and of a later group were removed after it.
C9_Witness ==
    /\ pc = "resolved"
    /\ ~dry_run
    /\ Len(duplicates) >= 2
    /\ \E i \in DOMAIN log :
           /\ log[i].level = "ERROR"
           /\ log[i].path.file \in exists
           /\ log[i].path \in Range(duplicates[1].files)
           /\ \E j \in (i + 1)..Len(log) :
                  /\ log[j].level = "INFO"
                  /\ log[j].path \in Range(duplicates[2].files)
                  /\ log[j].path \in Range(removed_files)

\* C10: find_duplicates fails with FileNotFoundError, and returns nothing,
\* whenever a scan root does not exist or is not a directory.
C10_MissingRootRaises ==
    (pc = "scanned" /\ \E i \in DOMAIN paths : paths[i].kind # "dir") =>
        /\ raised = "FileNotFoundError"
        /\ duplicates = <<>>

\* The paths the loops of find_duplicates meet, in the order they meet them.
RECURSIVE Discovered(_)
Discovered(ps) ==
    IF ps = <<>> THEN <<>>
    ELSE (IF is_file(Head(ps)) THEN <<FilePath(Head(ps).file, Head(ps).via)>>
          ELSE IF is_dir(Head(ps)) THEN rglob(Head(ps))
          ELSE <<>>) \o Discovered(Tail(ps))

Readable(p) == p.file \notin unreadable
Unreadable(p) == p.file \in unreadable

\* C11: a file whose hashing fails is logged and skipped and the scan goes
\* on: one WARNING record per unreadable path met, in order, and the result
\* is the grouping of the readable paths alone, as if the unreadable files
\* were absent.
C11_UnreadableFileIsSkipped ==
    pc = "scanned" =>
        LET bad == SelectSeq(Discovered(paths), Unreadable)
            good == SelectSeq(Discovered(paths), Readable)
        IN /\ Len(log) = Len(bad)
           /\ \A i \in DOMAIN bad :
                  log[i].level = "WARNING" /\ log[i].path = bad[i]
           /\ \A g \in Groups :
                  LET SameHash(p) == md5(content[p.file]) = duplicates[g].h
                  IN duplicates[g].files = SelectSeq(good, SameHash)
           /\ \A g1, g2 \in Groups : duplicates[g1].h = duplicates[g2].h => g1 = g2
           /\ \A i, j \in DOMAIN good :
                  (i < j /\ md5(content[good[i].file]) = md5(content[good[j].file]))
                      => \E g \in Groups : duplicates[g].h = md5(content[good[i].file])

\* An unreadable file was met first and logged, and the files met after it
\* were grouped.
C11_Witness ==
    /\ pc = "scanned"
    /\ paths = <<DirArg("rel")>>
    /\ unreadable = {1}
    /\ Len(log) = 1
    /\ Len(duplicates) = 1
    /\ duplicates[1].files = <<FilePath(2, "rel"), FilePath(3, "rel")>>

\* C12: the scan creates, deletes, moves and modifies nothing: a step of
\* find_duplicates leaves every file, its content, its name and its
\* permissions as they were.
C12_ScanIsReadOnly ==
    [][(pc = "start" /\ pc' = "scanned") =>
           /\ exists' = exists
           /\ content' = content
           /\ nameLen' = nameLen
           /\ unreadable' = unreadable]_vars

\* A scan that met an unreadable file and found a group.
C12_Witness ==
    /\ pc = "scanned"
    /\ Len(log) >= 1
    /\ Len(duplicates) >= 1
    /\ exists = Files

RECURSIVE IsSubseq(_, _)
IsSubseq(a, b) ==
    IF a = <<>> THEN TRUE
    ELSE IF b = <<>> THEN FALSE
    ELSE IF Head(a) = Head(b) THEN IsSubseq(Tail(a), Tail(b))
    ELSE IsSubseq(a, Tail(b))

\* C14: every group lists its files in discovery order: the group is a
\* subsequence of the paths in the order the scan met them, so a file met
\* before another one of the same fingerprint precedes it.
C14_GroupsKeepDiscoveryOrder ==
    pc = "scanned" =>
        \A g \in Groups :
            LET files == duplicates[g].files
                D == Discovered(paths)
            IN /\ IsSubseq(files, D)
               /\ \A p, q \in Range(files) :
                      FirstIndex(D, p) < FirstIndex(D, q)
                          => FirstIndex(files, p) < FirstIndex(files, q)

\* The third file was met first, then the first and the second: the group
\* starts with the third.
C14_Witness ==
    /\ pc = "scanned"
    /\ paths = <<FileArg(3, "rel"), DirArg("abs")>>
    /\ Len(duplicates) = 1
    /\ Len(duplicates[1].files) >= 3
    /\ duplicates[1].files[1] = FilePath(3, "rel")
    /\ duplicates[1].files[2] = FilePath(1, "abs")

KeptFiles == {keep_files[g].file : g \in DOMAIN keep_files}

\* C20: when another process deletes a non-kept file between the scan and
\* the resolution, deleting that file fails and is logged, the file is not
\* reported, and every other non-kept file is still removed.
C20_ExternallyDeletedFileIsSkipped ==
    (pc = "resolved" /\ ~dry_run) =>
        \A x \in vanished \ KeptFiles :
            \A p \in Range(Attempts(duplicates, keep_files)) :
                /\ p.file = x => (Failed(p) /\ p \notin Range(removed_files))
                /\ p.file \notin vanished => p.file \notin exists

\* A non-kept file had vanished, its deletion failed, and a later non-kept
\* file of the same group was removed.
C20_Witness ==
    /\ pc = "resolved"
    /\ ~dry_run
    /\ strategy = "first"
    /\ vanished = {2}
    /\ Len(duplicates) = 1
    /\ duplicates[1].files = <<FilePath(1, "rel"), FilePath(2, "rel"), FilePath(3, "rel")>>
    /\ Failed(FilePath(2, "rel"))
    /\ removed_files = <<FilePath(3, "rel")>>
    /\ exists = {1}

IsMoveRecord(r) == r.level = "INFO" /\ "dest" \in DOMAIN r

\* The name is the colliding name with one numeric part added before the
\* suffix.
Disambiguated(name, dest_path) ==
    /\ dest_path.suffix = name.suffix
    /\ \E c \in 1..(MaxCounter + 1) : dest_path.tags = Append(name.tags, c)

\* C17: a move never overwrites or removes a file of the target directory,
\* and a file whose name is taken in the target is stored under that name
\* with a numeric part before the suffix, in a place that was free.
C17_CollidingMoveIsRenamed ==
    [][last' = "move" =>
          /\ \A n \in Names : dest_dir[n] # Absent => dest_dir'[n] = dest_dir[n]
          /\ \A i \in DOMAIN move_log' :
                 LET r == move_log'[i]
                 IN IsMoveRecord(r) =>
                        /\ dest_dir[r.dest] = Absent
                        /\ dest_dir'[r.dest] = source_dir[r.src]
                        /\ dest_dir[r.src] # Absent => Disambiguated(r.src, r.dest)
                        /\ \A j \in DOMAIN move_log' :
                               (j # i /\ IsMoveRecord(move_log'[j]))
                                   => move_log'[j].dest # r.dest]_vars

\* Two files named "a.txt" were moved one after the other into a target that
\* held an "a.txt": the target holds them as "a_1.txt" and "a_2.txt".
C17_Witness ==
    /\ last = "move"
    /\ moved_files = <<[tags |-> <<2>>, suffix |-> Suffix]>>
    /\ dest_dir[[tags |-> <<>>, suffix |-> Suffix]] = Preexisting
    /\ dest_dir[[tags |-> <<1>>, suffix |-> Suffix]] = 1
    /\ dest_dir[[tags |-> <<2>>, suffix |-> Suffix]] = 2

\* The files in the groups of the scan with a scope.
ScopedFiles == {p.file : p \in UNION {Range(scoped[g].files) : g \in DOMAIN scoped}}

HasSegmentIn(f, names) == \E d \in names : d \in Range(parents[f])

HasExtensionIn(f, exts) == exts = {} \/ suffix[f] \in exts

WithinScope(f) ==
    /\ ~HasSegmentIn(f, scope.ignore_dirs)
    /\ HasExtensionIn(f, scope.extensions)

\* C15: no file below an excluded directory name is in a returned group, and
\* the groups are those of the remaining files: a remaining file is grouped
\* exactly when another remaining file has its fingerprint.
C15_ExcludedDirectoriesAreSkipped ==
    (scope_pc = "done" /\ scope_raised = "none") =>
        /\ \A f \in ScopedFiles : ~HasSegmentIn(f, scope.ignore_dirs)
        /\ \A f \in Files :
               f \in ScopedFiles <=>
                   /\ WithinScope(f)
                   /\ \E g \in Files \ {f} :
                          WithinScope(g) /\ md5(content[g]) = md5(content[f])

\* The tree of the tests: two equal files in the root and a third copy in
\* subdir1, which is excluded; one group of exactly the two.
C15_Witness ==
    /\ scope_pc = "done"
    /\ scope.ignore_dirs = {"subdir1"}
    /\ scope.extensions = {}
    /\ parents = <<<<>>, <<>>, <<"subdir1">>>>
    /\ content = [f \in Files |-> "X"]
    /\ Len(scoped) = 1
    /\ scoped[1].files = <<FilePath(1, "rel"), FilePath(2, "rel")>>

\* C16: with an allow-list configured, every file of every returned group has
\* an extension of the list.
C16_OnlyAllowedExtensionsAreGrouped ==
    (scope_pc = "done" /\ scope.extensions # {}) =>
        \A g \in DOMAIN scoped :
            \A i \in DOMAIN scoped[g].files :
                suffix[scoped[g].files[i].file] \in scope.extensions

\* Three equal files, one ".txt" and two ".py"; with the allow-list {".py"}
\* the group holds the two ".py" files only.
C16_Witness ==
    /\ scope_pc = "done"
    /\ scope.extensions = {".py"}
    /\ scope.ignore_dirs = {}
    /\ suffix = <<".txt", ".py", ".py">>
    /\ content = [f \in Files |-> "X"]
    /\ Len(scoped) = 1
    /\ scoped[1].files = <<FilePath(2, "rel"), FilePath(3, "rel")>>

\* C18: the move action without a target directory raises ValueError, also
\* for no groups at all, and leaves every file and the target as they were.
C18_MoveWithoutTargetRaises ==
    [][(act_pc = "start" /\ act_pc' = "done"
            /\ act_request'.action = "move" /\ act_request'.target = "none")
          => /\ act_raised' = "ValueError"
             /\ exists' = exists
             /\ content' = content
             /\ target_files' = target_files
             /\ target_made' = target_made
             /\ processed' = processed]_vars

\* act_on_duplicates({}, "move", None) has raised.
C18_Witness ==
    /\ act_pc = "done"
    /\ act_groups = <<>>
    /\ act_request = [action |-> "move", target |-> "none"]
    /\ act_raised = "ValueError"

\* The tokens of a text that are neither whitespace nor comment.
RECURSIVE Significant(_)
Significant(text) ==
    IF text = <<>> THEN <<>>
    ELSE IF Head(text) \in CodeTokens
         THEN <<Head(text)>> \o Significant(Tail(text))
         ELSE Significant(Tail(text))

Hashed(f) == fingerprints[f].raised = "none"

\* C19: two source files have equal fingerprints exactly when they differ in
\* whitespace and comments only; hashing a missing file raises an error and
\* gives no fingerprint.
C19_NormalizedHashIgnoresLayout ==
    /\ \A f, g \in SourceFiles :
           (Hashed(f) /\ Hashed(g)) =>
               (fingerprints[f].digest = fingerprints[g].digest
                    <=> Significant(source_text[f]) = Significant(source_text[g]))
    /\ \A f \in SourceFiles :
           fingerprints[f] # Unset =>
               IF f \in source_exists
               THEN Hashed(f) /\ fingerprints[f].digest # <<>>
               ELSE fingerprints[f] = [raised |-> "ValueError", digest |-> <<>>]

\* Two files that differ in a blank and a comment have one fingerprint.
C19_Witness ==
    /\ source_text["test1.py"] = <<"a", Comment>>
    /\ source_text["test2.py"] = <<Blank, "a">>
    /\ Hashed("test1.py")
    /\ Hashed("test2.py")
    /\ fingerprints["test1.py"].digest = fingerprints["test2.py"].digest

\* C23: the members of every returned group are pairwise distinct paths of
\* pairwise distinct files: no file is reported as a duplicate of itself.
C23_GroupMembersAreDistinct ==
    pc = "scanned" =>
        \A g \in Groups :
            LET files == duplicates[g].files
            IN \A i, j \in DOMAIN files :
                   i # j => (files[i] # files[j] /\ files[i].file # files[j].file)

\* C24: after scanning and resolving, every content that a file under the
\* given paths had before the call is still the content of a file on disk.
C24_NoContentIsLost ==
    pc = "resolved" =>
        \A f \in Files :
            InScope(f) => \E f2 \in exists : content[f2] = content[f]

\* The prompt the precedence rule selects when there is one and it is a
\* string: the inline string, else the prompt of the file, else the default.
ChosenPrompt ==
    LET asJson == prompt_args.prompt_name = "system" /\ prompt_args.file_path = "p.json"
    IN IF prompt_args.source # None THEN prompt_args.source
       ELSE IF prompt_args.file_path # NoPath
            THEN CASE prompt_file.kind = "text" /\ ~asJson -> prompt_file.text
                   [] prompt_file.kind = "json" /\ ~asJson ->
                          <<"{">> \o prompt_file.text \o <<"}">>
                   [] prompt_file.kind = "json" /\ asJson /\ prompt_file.text \in Strings ->
                          prompt_file.text
                   [] prompt_file.kind = "json" /\ asJson /\ prompt_file.text = NoKey -> <<>>
                   [] OTHER -> None
       ELSE prompt_args.default

IsBlank(str) == \A i \in DOMAIN str : str[i] = " "

\* C21: read_prompt either raises ValueError or returns; it raises ValueError
\* when nothing is provided, when the named file does not exist and when the
\* selected prompt is blank, and it returns the selected prompt unchanged
\* when that prompt is not blank.
C21_ReadPromptPrecedence ==
    prompt_out # NotCalled =>
        /\ prompt_out.raised \in {"none", "ValueError"}
        /\ (prompt_args.source = None /\ prompt_args.file_path = NoPath
                /\ prompt_args.default = None) => prompt_out.raised = "ValueError"
        /\ (prompt_args.source = None /\ prompt_args.file_path # NoPath
                /\ prompt_file.kind = "missing") => prompt_out.raised = "ValueError"
        /\ ChosenPrompt # None =>
               IF IsBlank(ChosenPrompt)
               THEN prompt_out.raised = "ValueError"
               ELSE prompt_out = [raised |-> "none", value |-> ChosenPrompt]

FailedRequests == {i \in DOMAIN page_requests : page_requests[i] # "ok"}

\* C25: get_page issues at most `retries` requests; a returned text follows
\* the first successful request, which is the last request; None is returned
\* only when `retries` requests have failed; and the waits are 1, 2, 4, ...
\* seconds, one after each failed request that is followed by another.
C25_GetPageRetries ==
    /\ Len(page_requests) <= page_retries
    /\ \A i \in DOMAIN page_requests : page_requests[i] = "ok" => i = Len(page_requests)
    /\ (page_result.done /\ page_result.value # "None") =>
           /\ page_requests # <<>>
           /\ page_requests[Len(page_requests)] = "ok"
    /\ (page_result.done /\ page_result.value = "None") =>
           /\ Len(page_requests) = page_retries
           /\ FailedRequests = DOMAIN page_requests
    /\ \A i \in DOMAIN page_sleeps : page_sleeps[i] = 2 ^ (i - 1)
    /\ Len(page_sleeps) =
           IF page_result.done /\ page_result.value = "None" /\ page_retries > 0
           THEN Cardinality(FailedRequests) - 1
           ELSE Cardinality(FailedRequests)

\* With three retries: two failures, waits of 1 and 2 seconds, then a page.
C25_Witness ==
    /\ page_retries = 3
    /\ page_requests = <<"Timeout", "HTTPError", "ok">>
    /\ page_sleeps = <<1, 2>>
    /\ page_result = Returned("<html>")

\* The urls that a chain of at most k links leads to from start_url.
RECURSIVE Within(_)
Within(k) ==
    IF k = 0 THEN {start_url}
    ELSE Within(k - 1) \cup UNION {crawl_links[u] : u \in Within(k - 1)}

NoRepeats(q) == \A i, j \in DOMAIN q : i # j => q[i] # q[j]

\* C26: crawl_website fetches no url twice; its list of urls has no repeats
\* and at most max_pages entries; every url fetched or listed is within
\* max_depth links of start_url.
C26_CrawlIsBounded ==
    /\ NoRepeats(fetched)
    /\ NoRepeats(all_urls)
    /\ Len(all_urls) <= crawl_args.max_pages
    /\ Range(fetched) \cup Range(all_urls) \subseteq Within(crawl_args.max_depth)

\* A site where every page links to every page, crawled to depth 1 with room
\* for all pages: three fetches, three urls.
C26_Witness ==
    /\ crawl_pc = "done"
    /\ crawl_links = [u \in Urls |-> Urls]
    /\ crawl_args = [max_depth |-> 1, max_pages |-> 3]
    /\ all_urls = <<"/", "/a", "/b">>
    /\ fetched = all_urls

\* C27: every call of crawl_website returns.
C27_CrawlTerminates == <>(crawl_pc = "done")

\* A crawl of a site with a cycle and a page that failed to download has
\* returned.
C27_Witness ==
    /\ crawl_pc = "done"
    /\ "/" \in crawl_links["/a"]
    /\ "/a" \in crawl_links["/"]
    /\ crawl_failed = {"/b"}
    /\ Len(all_urls) = 3

\* C22: an email that run_once has processed is marked as read, and no
\* email has its command handler run, or a response sent, more than once.
C22_EmailProcessedOnce ==
    /\ NoRepeats(handled)
    /\ \A i, j \in DOMAIN responses : i # j => responses[i].msg # responses[j].msg
    /\ bot_raised = "none" =>
           \A i \in DOMAIN responses : responses[i].msg \in seen

\* The sender contains an authorized entry, letter case aside.
Matches(sender) ==
    \E auth \in authorized_senders :
        \E i \in 1..Len(sender) : \E j \in i..Len(sender) :
            lower(SubSeq(sender, i, j)) = auth

\* C28: with a non-empty list of authorized senders, no handler has run for
\* and no response was sent to an email whose sender matches no entry; with
\* an empty list no sender is turned away.
C28_UnauthorizedSenderIsIgnored ==
    /\ authorized_senders # {} =>
           /\ \A i \in DOMAIN handled : Matches(mail[handled[i]].from)
           /\ \A i \in DOMAIN responses :
                  /\ Matches(mail[responses[i].msg].from)
                  /\ Matches(responses[i].to)
    /\ authorized_senders = {} =>
           \A i \in DOMAIN bot_log : bot_log[i].level # "WARNING"

\* A poll fetched a registered command from a sender outside the list and
\* turned it away: no handler ran and nothing was sent.
C28_Witness ==
    /\ authorized_senders = {<<"b">>}
    /\ \E m \in Msgs :
           /\ mail[m] = [from |-> <<"a">>, subject |-> "cmd:start"]
           /\ \E i \in DOMAIN bot_log : bot_log[i] = [level |-> "WARNING", msg |-> m]
    /\ polls > 0
    /\ handled = <<>>
    /\ responses = <<>>

\* C29: after run_once the client holds no connection.
C29_NoConnectionAfterRunOnce ==
    connection = "None"

\* The file f lies in the directory p or below it.
InSubtree(f, p) == Len(f.dir) >= Len(p) /\ SubSeq(f.dir, 1, Len(p)) = p

====
